---------------------------- MODULE Spec2Model ----------------------------
(***************************************************************************)
(* Model of the Mars Hydro light controller:                               *)
(*   - internal/timer/timer.go : LightTimer.GetExpectedBrightness          *)
(*   - main.go (updateState and the ticker loop)                           *)
(*   - internal/api/mh_api.go  : Login, GetLightData, SetBrightness,       *)
(*                               ToggleSwitch, ensureToken                 *)
(*                                                                         *)
(* Times are seconds since midnight.  All ramps are whole numbers of       *)
(* seconds because hours are integers and 3600 is even, so the float64     *)
(* ramp values of the source are represented exactly by integers; the      *)
(* only non-integer quantity, brightness/StepSize, is kept as an exact     *)
(* fraction and rounded the way math.Round rounds (half away from zero).   *)
(***************************************************************************)
EXTENDS Integers, Sequences, FiniteSets, TLC

(***************************************************************************)
(* Program constants.                                                      *)
(***************************************************************************)
SecPerHour == 3600

SecPerMinute == 60

TickSec == 60

StepQuantum == 5

Unknown == -1

LoginInterval == 300

(***************************************************************************)
(* Bounds of the model.                                                    *)
(***************************************************************************)
MaxStartHour == 1

MaxPlateauHour == 1

MaxEndHour == 3

MaxOffset == 1

MaxStepMult == 3

MaxBrightMult == 3

MaxNowHour == 4

SampleSec == 300

MaxSwitchRequests == 3

ClockStep == 150

MaxClock == 450

VARIABLES
    lt,            \* the LightTimer configuration (loaded once, never mutated)
    now,           \* nowSec of the time the schedule was last evaluated at
    expected,      \* the value GetExpectedBrightness returned for now
    prevNow,       \* the previous evaluation time (history)
    prevExpected,  \* the value returned for prevNow (history)
    pc,            \* position of main: "startup" (line 59) or "loop" (line 65)
    lastBrightness,\* main's lastBrightness, Unknown (-1) until a first success
    tick,          \* what the last updateState call did (observation)
    api,           \* a MarsHydroAPI session object used by a client of the package
    clock,         \* wall-clock seconds (time.Now / time.Since)
    call,          \* the package call in progress or last returned on api
    mu,            \* api.mu: the goroutine that holds it, or Unlocked
    thr            \* per goroutine: where its Login call stands and what it did

timerVars == <<lt, now, expected, prevNow, prevExpected>>

mainVars == <<pc, lastBrightness, tick>>

apiVars == <<api, clock, call, mu, thr>>

vars == <<lt, now, expected, prevNow, prevExpected, pc, lastBrightness, tick,
          api, clock, call, mu, thr>>

(***************************************************************************)
(* Configurations accepted by config.LoadLightTimerConfig: the only check  *)
(* is EndHour > StartHour + PlateauHour.  StepSize and Brightness are      *)
(* positive; StepSize is a multiple of 5 (README, timer.LoadConfig).       *)
(***************************************************************************)
ValidConfig(c) == c.EndHour > c.StartHour + c.PlateauHour

Configs ==
    { c \in [ StartHour     : 0..MaxStartHour,
              PlateauHour   : 0..MaxPlateauHour,
              EndHour       : 0..MaxEndHour,
              StepSize      : { StepQuantum * k : k \in 1..MaxStepMult },
              PlateauOffset : (0 - MaxOffset)..MaxOffset,
              Brightness    : { StepQuantum * k : k \in 1..MaxBrightMult } ] :
        ValidConfig(c) }

(***************************************************************************)
(* nowSec := now.Hour()*3600 + now.Minute()*60 + now.Second()              *)
(***************************************************************************)
NowSec(h, m, s) == h * SecPerHour + m * SecPerMinute + s

MaxNowSec == NowSec(MaxNowHour, 0, 0)

\* The sampled times of day: every SampleSec seconds, and the seconds just
\* before and after each sample point.
Times ==
    { t \in 0..(MaxNowSec - 1) :
        (t % SampleSec) \in {0, 1, SampleSec - 1} }

NextTime(t) ==
    IF \E u \in Times : u > t
    THEN CHOOSE u \in Times : u > t /\ \A w \in Times : w > t => u <= w
    ELSE t

(***************************************************************************)
(* Derived quantities of GetExpectedBrightness (timer.go lines 62-72, 89,  *)
(* 90).                                                                    *)
(***************************************************************************)
StartSec(c) == c.StartHour * SecPerHour

EndSec(c) == c.EndHour * SecPerHour

PlateauSec(c) == c.PlateauHour * SecPerHour

\* float64(endSec-startSec-plateauSec) / 2.0 : the numerator is a multiple
\* of 3600, so the quotient is a whole number.
BaselineRamp(c) == (EndSec(c) - StartSec(c) - PlateauSec(c)) \div 2

OffsetSec(c) == c.PlateauOffset * SecPerHour

SunriseRamp(c) == BaselineRamp(c) + OffsetSec(c)

SunsetRamp(c) == BaselineRamp(c) - OffsetSec(c)

\* plateauStart := startSec + int(sunriseRamp); sunriseRamp is a whole
\* number, which int() converts exactly.
\* The plateau placed after the baseline ramp, PlateauOffset left out.
PlateauStart_NoOffset(c) == StartSec(c) + BaselineRamp(c)

PlateauStart(c) == StartSec(c) + SunriseRamp(c)

PlateauEnd(c) == PlateauStart(c) + PlateauSec(c)

\* math.Round of the fraction n/d (d # 0): nearest integer, halves away
\* from zero.
Abs(x) == IF x >= 0 THEN x ELSE 0 - x

MathRound(n, d) ==
    LET an == Abs(n)
        ad == Abs(d)
        mag == (2 * an + ad) \div (2 * ad)
    IN  IF (n >= 0) = (d > 0) THEN mag ELSE 0 - mag

\* The quantization without the clamp of lines 82-84 / 100-102.
Quantize_NoClamp(c, num, ramp) ==
    LET n == c.StepSize * ramp + num * (c.Brightness - c.StepSize)
        d == ramp * c.StepSize
    IN  MathRound(n, d) * c.StepSize

\* The interpolation run from Brightness down to StepSize.
Quantize_Inverted(c, num, ramp) ==
    LET n == c.StepSize * ramp + (ramp - num) * (c.Brightness - c.StepSize)
        d == ramp * c.StepSize
        result == MathRound(n, d) * c.StepSize
    IN  IF result > c.Brightness THEN c.Brightness ELSE result

\* Lines 79-85 and 97-103: fraction := num / ramp;
\*   brightness := StepSize + fraction*(Brightness-StepSize)
\*   result := int(math.Round(brightness/StepSize) * StepSize), clamped.
\* brightness/StepSize = (StepSize*ramp + num*(Brightness-StepSize))
\*                       / (ramp*StepSize)
Quantize(c, num, ramp) ==
    LET n == c.StepSize * ramp + num * (c.Brightness - c.StepSize)
        d == ramp * c.StepSize
        result == MathRound(n, d) * c.StepSize
    IN  IF result > c.Brightness THEN c.Brightness ELSE result

\* Line 74: the lamp is off before StartHour and from EndHour on.
OutsideWindow_NoEndCheck(c, nowSec) == nowSec < StartSec(c)

OutsideWindow(c, nowSec) == nowSec < StartSec(c) \/ nowSec >= EndSec(c)

\* Line 78: float64(nowSec) < float64(startSec)+sunriseRamp
InSunrise(c, nowSec) == nowSec < StartSec(c) + SunriseRamp(c)

\* Line 91: nowSec >= plateauStart && nowSec < plateauEnd
InPlateau_Strict(c, nowSec) ==
    nowSec > PlateauStart(c) /\ nowSec < PlateauEnd(c)

InPlateau(c, nowSec) ==
    nowSec >= PlateauStart(c) /\ nowSec < PlateauEnd(c)

GetExpectedBrightness(c, nowSec) ==
    IF OutsideWindow(c, nowSec) THEN 0
    ELSE IF InSunrise(c, nowSec)
         THEN Quantize(c, nowSec - StartSec(c), SunriseRamp(c))
    ELSE IF InPlateau(c, nowSec)
         THEN c.Brightness
    ELSE IF nowSec < EndSec(c)
         THEN Quantize(c, EndSec(c) - nowSec, SunsetRamp(c))
    ELSE 0

\* Whether the evaluation at nowSec divides by a ramp of zero (lines 79, 97).
\* A division by a zero ramp yields +Inf or NaN, whose conversion to int is
\* implementation-dependent.
DividesByZeroRamp(c, nowSec) ==
    /\ ~OutsideWindow(c, nowSec)
    /\ IF InSunrise(c, nowSec)
       THEN SunriseRamp(c) = 0
       ELSE ~InPlateau(c, nowSec) /\ SunsetRamp(c) = 0

\* Whether the evaluation at nowSec runs the sunrise interpolation, which
\* divides by sunriseRamp (line 79), or the sunset interpolation, which
\* divides by sunsetRamp (line 97).
DividesBySunriseRamp(c, nowSec) ==
    ~OutsideWindow(c, nowSec) /\ InSunrise(c, nowSec)

DividesBySunsetRamp(c, nowSec) ==
    ~OutsideWindow(c, nowSec) /\ ~InSunrise(c, nowSec) /\ ~InPlateau(c, nowSec)

\* A sample of the int values such a conversion may produce.
ImplementationDependentInts == { 0 - 1, 0, 1 }

BrightnessOutcomes(c, nowSec) ==
    IF DividesByZeroRamp(c, nowSec)
    THEN ImplementationDependentInts
    ELSE { GetExpectedBrightness(c, nowSec) }

(***************************************************************************)
(* internal/api/mh_api.go: the session object and its calls.               *)
(*                                                                         *)
(* Every call is a function of the session, the clock and the responses    *)
(* the server gives to the requests the call sends.  A call returns a      *)
(* record: the session as the call left it, its error ("nil" for none)     *)
(* and the requests it sent, in order, each with the token it carried      *)
(* (generateSystemData), the answer it received and the error that the     *)
(* handling of the answer produced.                                        *)
(***************************************************************************)
Tokens == {"t1", "t2"}

\* time.Time{}: LastLoginTime of a session that never logged in.  time.Since
\* of it exceeds every LoginInterval, as it does for an instant that lies
\* LoginInterval before the start of the run.
ZeroTime == 0 - LoginInterval

NewMarsHydroAPI ==
    [Token |-> "", LastLoginTime |-> ZeroTime, DeviceID |-> "", GroupID |-> ""]

\* A call that returns err without sending a request.
Ret(a, err) == [api |-> a, err |-> err, reqs |-> <<>>]

\* One request req sent by session a, answered ans, leaving session b and
\* the error err.
Sent(a, b, req, ans, err) ==
    [api |-> b, err |-> err,
     reqs |-> << [req |-> req, token |-> a.Token, ans |-> ans, err |-> err] >>]

\* The result of running q after p on the same session.
Then(p, q) == [api |-> q.api, err |-> q.err, reqs |-> p.reqs \o q.reqs]

\* The number of requests of kind req in a sequence of requests.
Count(reqs, req) == Cardinality({ i \in DOMAIN reqs : reqs[i].req = req })

\* Answers to POST /ulogin/mailLogin/v1: the request fails, the body does
\* not decode, "data" is missing, "data.token" is missing or no string, or
\* "data.token" is a string (possibly empty).
LoginResponses ==
    { [kind |-> k, token |-> ""] : k \in {"neterr", "badjson", "nodata", "notoken"} }
    \cup { [kind |-> "token", token |-> t] : t \in Tokens \cup {""} }

\* Line 64: api.Token != "" && time.Since(api.LastLoginTime) < api.LoginInterval
TokenStillValid(a, clk) ==
    a.Token # "" /\ clk - a.LastLoginTime < LoginInterval

\* Lines 69-106: the login request and the handling of its answer.
\* The handling with LastLoginTime stamped when the answer arrives, before
\* the answer is validated.
LoginRequest_StampOnAnswer(a, clk, r) ==
    LET sent(x, err) == Sent(a, x, "login", r.kind, err)
        stamped == [a EXCEPT !.LastLoginTime = clk]
    IN  CASE r.kind = "neterr"  -> sent(a, "transport")
          [] r.kind = "badjson" -> sent(a, "decode")
          [] r.kind = "nodata"  -> sent(stamped, "invalid login response")
          [] r.kind = "notoken" -> sent(stamped, "token not found in response")
          [] OTHER ->
               sent([a EXCEPT !.Token = r.token, !.LastLoginTime = clk], "nil")

LoginRequest(a, clk, r) ==
    LET sent(x, err) == Sent(a, x, "login", r.kind, err)
    IN  CASE r.kind = "neterr"  -> sent(a, "transport")
          [] r.kind = "badjson" -> sent(a, "decode")
          [] r.kind = "nodata"  -> sent(a, "invalid login response")
          [] r.kind = "notoken" -> sent(a, "token not found in response")
          [] OTHER ->
               sent([a EXCEPT !.Token = r.token, !.LastLoginTime = clk], "nil")

Login(a, clk, r) ==
    IF TokenStillValid(a, clk) THEN Ret(a, "nil") ELSE LoginRequest(a, clk, r)

LoginOutcomes(a, clk) == { Login(a, clk, r) : r \in LoginResponses }

\* Lines 301-306.
ensureToken(a, clk, r) ==
    IF a.Token = "" THEN Login(a, clk, r) ELSE Ret(a, "nil")

ensureTokenOutcomes(a, clk) == { ensureToken(a, clk, r) : r \in LoginResponses }

\* A JSON field of the first device entry: absent, a string, a number
\* (float64) or a value of another type.
Digits == <<"0", "1", "2", "3", "4", "5", "6", "7", "8", "9">>

\* fmt.Sprintf("%.0f", v) of a whole number 0..9.
FormatFloat(n) == Digits[n + 1]

Field(t, str, n) == [t |-> t, s |-> str, n |-> n]

Absent == Field("absent", "", 0)

IdFields ==
    { Absent, Field("string", "", 0), Field("string", "d1", 0),
      Field("number", "", 7) }

GroupFields == { Absent, Field("string", "g1", 0), Field("number", "", 3) }

\* Answers to POST /udm/getDeviceList/v1: the request fails, the body does
\* not decode, the code is not "000", the list is missing or empty, the
\* first entry is no object, or the first entry is an object.
DeviceListResponses ==
    { [kind |-> k, id |-> Absent, deviceId |-> Absent, groupId |-> Absent] :
        k \in {"neterr", "badjson", "badcode", "nolist", "notmap"} }
    \cup { [kind |-> "entry", id |-> i, deviceId |-> d, groupId |-> g] :
             i \in IdFields, d \in IdFields, g \in GroupFields }

\* Lines 201-210 and 213-222: the switch on the type of an id field.
AssignId(old, f) ==
    CASE f.t = "string" -> IF f.s # "" THEN f.s ELSE old
      [] f.t = "number" -> FormatFloat(f.n)
      [] OTHER -> old

\* Lines 228-237.
AssignGroup(old, f) ==
    CASE f.t = "absent" -> ""
      [] f.t = "string" -> f.s
      [] f.t = "number" -> FormatFloat(f.n)
      [] OTHER -> old

\* Lines 156-247: the getDeviceList request and the handling of its answer.
\* The handling with the group id read before the device id is checked.
DeviceListRequest_GroupFirst(a, r) ==
    LET sent(x, err) == Sent(a, x, "getDeviceList", r.kind, err)
        id1 == AssignId(a.DeviceID, r.id)
        id2 == IF id1 = "" THEN AssignId(id1, r.deviceId) ELSE id1
        b == [a EXCEPT !.DeviceID = id2,
                       !.GroupID = AssignGroup(a.GroupID, r.groupId)]
    IN  CASE r.kind = "neterr"  -> sent(a, "transport")
          [] r.kind = "badjson" -> sent(a, "decode")
          [] r.kind = "badcode" -> sent(a, "error retrieving light devices")
          [] r.kind = "nolist"  -> sent(a, "no light devices available")
          [] r.kind = "notmap"  -> sent(a, "invalid device data")
          [] OTHER ->
               IF id2 = ""
               THEN sent(b, "device id not found in response")
               ELSE sent(b, "nil")

DeviceListRequest(a, r) ==
    LET sent(x, err) == Sent(a, x, "getDeviceList", r.kind, err)
        id1 == AssignId(a.DeviceID, r.id)
        id2 == IF id1 = "" THEN AssignId(id1, r.deviceId) ELSE id1
    IN  CASE r.kind = "neterr"  -> sent(a, "transport")
          [] r.kind = "badjson" -> sent(a, "decode")
          [] r.kind = "badcode" -> sent(a, "error retrieving light devices")
          [] r.kind = "nolist"  -> sent(a, "no light devices available")
          [] r.kind = "notmap"  -> sent(a, "invalid device data")
          [] OTHER ->
               IF id2 = ""
               THEN sent([a EXCEPT !.DeviceID = id2], "device id not found in response")
               ELSE sent([a EXCEPT !.DeviceID = id2,
                                   !.GroupID = AssignGroup(a.GroupID, r.groupId)],
                         "nil")

\* Lines 151-248.
GetLightDataOutcomes(a, clk) ==
    UNION { IF e.err # "nil"
            THEN {e}
            ELSE { Then(e, DeviceListRequest(e.api, r)) : r \in DeviceListResponses } :
            e \in ensureTokenOutcomes(a, clk) }

\* Answers to a command request (adjustLight, lampSwitch): the request
\* fails, the body does not decode, or the body carries a code: the success
\* sentinel "000", the expiry sentinel "102", another code, or no string.
CommandResponses == {"neterr", "badjson", "000", "102", "500", "nocode"}

\* Lines 261-298: the adjustLight request and the handling of its answer.
\* A request that fails returns nil (line 281).
AdjustLightRequest(a, r) ==
    LET sent(err) == Sent(a, a, "adjustLight", r, err)
    IN  CASE r = "neterr"  -> sent("nil")
          [] r = "badjson" -> sent("decode")
          [] r = "000"     -> sent("nil")
          [] OTHER         -> sent("received error response")

\* Lines 250-299.
SetBrightnessOutcomes(a, clk) ==
    LET discovered == IF a.DeviceID = ""
                      THEN GetLightDataOutcomes(a, clk)
                      ELSE { Ret(a, "nil") }
        withToken(d) == { Then(d, e) : e \in ensureTokenOutcomes(d.api, clk) }
        command(e) == { Then(e, AdjustLightRequest(e.api, r)) : r \in CommandResponses }
    IN  UNION { IF d.err # "nil"
                THEN {d}
                ELSE UNION { IF e.err # "nil" THEN {e} ELSE command(e) :
                             e \in withToken(d) } :
                d \in discovered }

\* Lines 114-148: the lampSwitch request and the handling of its answer.
\* An answer with code "102" calls Login (answered r2) and, when Login
\* returns no error, ToggleSwitch again (line 146): recurse tells whether
\* the call goes on with another invocation of itself.  Every other decoded
\* answer is returned with a nil error.
LampSwitchRequest(a, clk, r, r2) ==
    LET sent(err) == Sent(a, a, "lampSwitch", r, err)
        relogin == Then(sent("nil"), Login(a, clk, r2))
    IN  CASE r = "neterr"  -> [call |-> sent("transport"), recurse |-> FALSE]
          [] r = "badjson" -> [call |-> sent("decode"), recurse |-> FALSE]
          [] r = "102"     -> [call |-> relogin, recurse |-> relogin.err = "nil"]
          [] OTHER         -> [call |-> sent("nil"), recurse |-> FALSE]

\* Lines 109-149: one invocation of ToggleSwitch, up to its return or its
\* call of itself.
ToggleSwitchOutcomes(a, clk) ==
    UNION { IF e.err # "nil"
            THEN { [call |-> e, recurse |-> FALSE] }
            ELSE { [call |-> Then(e, s.call), recurse |-> s.recurse] :
                   s \in { LampSwitchRequest(e.api, clk, r, r2) :
                           r \in CommandResponses, r2 \in LoginResponses } } :
            e \in ensureTokenOutcomes(a, clk) }

(***************************************************************************)
(* main.go: updateState (lines 28-54).  It returns the new lastBrightness  *)
(* and what the call did: lastBrightness before it, the target, whether it *)
(* went past the debounce check, the requests it sent and its error.       *)
(***************************************************************************)
TickRecord(before, target, applied, r) ==
    [before |-> before, target |-> target, applied |-> applied,
     reqs |-> r.reqs, err |-> r.err]

\* Line 30: lastBrightness != -1 && state == lastBrightness
\* The check with lastBrightness taken as 0 (lamp off) while it is unknown.
Debounced_UnknownIsOff(state, last) ==
    state = (IF last = Unknown THEN 0 ELSE last)

\* The check with the comparison of the values left out.
Debounced_OnlyWhenUnknown(state, last) == last # Unknown /\ state # last

Debounced(state, last) == last # Unknown /\ state = last

\* Lines 38-53: a new session, Login, SetBrightness; lastBrightness is
\* assigned when neither returned an error.
ApplyOutcomesAt(clk) ==
    UNION { IF l.err # "nil"
            THEN {l}
            ELSE { Then(l, sb) : sb \in SetBrightnessOutcomes(l.api, clk) } :
            l \in LoginOutcomes(NewMarsHydroAPI, clk) }

\* The session of an updateState call is new and dropped at its end, and no
\* call on it reads the clock while its Token is empty (line 64), so what
\* the call does and returns is the same at every time: the session is
\* left out and the outcomes are those at time 0.
Summary(r) ==
    [err |-> r.err,
     reqs |-> [ i \in DOMAIN r.reqs |->
                  [req |-> r.reqs[i].req, ans |-> r.reqs[i].ans,
                   err |-> r.reqs[i].err] ]]

ApplyOutcomes == { Summary(r) : r \in ApplyOutcomesAt(0) }

NoRequests == Summary(Ret(NewMarsHydroAPI, "nil"))

updateState(state, last) ==
    IF Debounced(state, last)
    THEN { [last |-> last, tick |-> TickRecord(last, state, FALSE, NoRequests)] }
    ELSE { [last |-> IF r.err = "nil" THEN state ELSE last,
            tick |-> TickRecord(last, state, TRUE, r)] :
           r \in ApplyOutcomes }

NoTick == TickRecord(Unknown, Unknown, FALSE, NoRequests)

NoCall == [op |-> "none", pc |-> "idle", err |-> "nil", reqs |-> <<>>]

\* The goroutines that call Login on one session at the same time.
Callers == {1, 2}

\* sync.Mutex held by no goroutine.
Unlocked == 0

\* A goroutine's Login call: pc is its position ("idle" before the call,
\* "lock" at line 61, "check" at line 64, "request" at line 84 with the
\* request sent, "return" at a return statement with the deferred Unlock
\* pending, "done" after it); seq is the rank of its login request among
\* those sent on the session (0: none sent), at the time the request was
\* sent, err the error of the call and token the session's Token when the
\* call returned.
ThreadAt(p) == [pc |-> p, seq |-> 0, at |-> 0, err |-> "nil", token |-> ""]

NotCalled == ThreadAt("idle")

(***************************************************************************)
(* SpecTimer: the schedule engine alone.  The configuration and the first  *)
(* evaluation time are drawn from the bounded sets; each step evaluates    *)
(* the schedule at the next sampled time of day.                           *)
(***************************************************************************)
InitTimer ==
    /\ lt \in Configs
    /\ now \in Times
    /\ expected \in BrightnessOutcomes(lt, now)
    /\ prevNow = now
    /\ prevExpected = expected
    /\ pc = "startup"
    /\ lastBrightness = Unknown
    /\ tick = NoTick
    /\ api = NewMarsHydroAPI
    /\ clock = 0
    /\ call = NoCall
    /\ mu = Unlocked
    /\ thr = [t \in Callers |-> NotCalled]

Evaluate ==
    /\ NextTime(now) > now
    /\ now' = NextTime(now)
    /\ expected' \in BrightnessOutcomes(lt, now')
    /\ prevNow' = now
    /\ prevExpected' = expected
    /\ UNCHANGED <<lt, mainVars, apiVars>>

NextTimer == Evaluate

SpecTimer == InitTimer /\ [][NextTimer]_vars

(***************************************************************************)
(* Spec: the program of main.go.  Init is the state at line 59, with the   *)
(* configuration loaded, lastBrightness unknown and the expected value     *)
(* computed for the startup time.  Startup is the first updateState call   *)
(* (line 59); TickerFire is one iteration of the ticker loop (lines 65-68):*)
(* the ticker delivers the next time, one minute later, the schedule is    *)
(* evaluated and updateState runs to completion.  The run is followed      *)
(* until the time of day reaches MaxNowHour.                               *)
(***************************************************************************)
\* The schedules the reconciler is run with: lamp on from 01:00 to 03:00
\* with a plateau of one hour, the finest step and the highest Brightness
\* of the bounds, at every offset of the bounds.
ReconcilerConfigs ==
    { c \in Configs :
        /\ c.StartHour = 1
        /\ c.PlateauHour = 1
        /\ c.EndHour = 3
        /\ c.StepSize = StepQuantum
        /\ c.Brightness = StepQuantum * MaxBrightMult }

\* The program is started on one of the five-minute marks of the day.
StartupTimes ==
    { NowSec(h, 5 * k, 0) : h \in 0..(MaxNowHour - 1), k \in 0..11 }

Init ==
    /\ lt \in ReconcilerConfigs
    /\ now \in StartupTimes
    /\ expected \in BrightnessOutcomes(lt, now)
    /\ prevNow = now
    /\ prevExpected = expected
    /\ pc = "startup"
    /\ lastBrightness = Unknown
    /\ tick = NoTick
    /\ api = NewMarsHydroAPI
    /\ clock = 0
    /\ call = NoCall
    /\ mu = Unlocked
    /\ thr = [t \in Callers |-> NotCalled]

Startup ==
    /\ pc = "startup"
    /\ pc' = "loop"
    /\ \E u \in updateState(expected, lastBrightness) :
         /\ lastBrightness' = u.last
         /\ tick' = u.tick
    /\ UNCHANGED <<timerVars, apiVars>>

TickerFire ==
    /\ pc = "loop"
    /\ now + TickSec < MaxNowSec
    /\ now' = now + TickSec
    /\ prevNow' = now
    /\ prevExpected' = expected
    /\ \E e \in BrightnessOutcomes(lt, now') :
         /\ expected' = e
         /\ \E u \in updateState(e, lastBrightness) :
              /\ lastBrightness' = u.last
              /\ tick' = u.tick
    /\ UNCHANGED <<lt, pc, apiVars>>

Next == Startup \/ TickerFire

Spec == Init /\ [][Next]_vars

(***************************************************************************)
(* SpecApi: a client of package api that keeps one session object and      *)
(* calls Login, GetLightData, SetBrightness and ToggleSwitch on it, one    *)
(* call at a time, while the clock advances.  Login, GetLightData and      *)
(* SetBrightness run to their return in one step.  ToggleSwitch calls      *)
(* itself (line 146), so each of its invocations is a step: call.pc is     *)
(* "running" while an invocation is pending; the invocations of one call   *)
(* are followed until the call has sent MaxSwitchRequests requests.        *)
(***************************************************************************)
\* The example configuration of the README.
ExampleConfig ==
    [StartHour |-> 8, PlateauHour |-> 6, PlateauOffset |-> 0 - 1,
     Brightness |-> 100, EndHour |-> 20, StepSize |-> 10]

Returned(op, r) == [op |-> op, pc |-> "returned", err |-> r.err, reqs |-> r.reqs]

InitApi ==
    /\ lt = ExampleConfig
    /\ now = 0
    /\ expected = GetExpectedBrightness(lt, now)
    /\ prevNow = now
    /\ prevExpected = expected
    /\ pc = "startup"
    /\ lastBrightness = Unknown
    /\ tick = NoTick
    /\ api = NewMarsHydroAPI
    /\ clock = 0
    /\ call = NoCall
    /\ mu = Unlocked
    /\ thr = [t \in Callers |-> NotCalled]

CallLogin ==
    /\ call.pc # "running"
    /\ \E r \in LoginOutcomes(api, clock) :
         /\ api' = r.api
         /\ call' = Returned("Login", r)
    /\ UNCHANGED <<timerVars, mainVars, clock, mu, thr>>

CallGetLightData ==
    /\ call.pc # "running"
    /\ \E r \in GetLightDataOutcomes(api, clock) :
         /\ api' = r.api
         /\ call' = Returned("GetLightData", r)
    /\ UNCHANGED <<timerVars, mainVars, clock, mu, thr>>

CallSetBrightness ==
    /\ call.pc # "running"
    /\ \E r \in SetBrightnessOutcomes(api, clock) :
         /\ api' = r.api
         /\ call' = Returned("SetBrightness", r)
    /\ UNCHANGED <<timerVars, mainVars, clock, mu, thr>>

CallToggleSwitch ==
    /\ call.pc # "running"
    /\ \E o \in ToggleSwitchOutcomes(api, clock) :
         /\ api' = o.call.api
         /\ call' = [op |-> "ToggleSwitch",
                     pc |-> IF o.recurse THEN "running" ELSE "returned",
                     err |-> o.call.err, reqs |-> o.call.reqs]
    /\ UNCHANGED <<timerVars, mainVars, clock, mu, thr>>

ToggleSwitchRecurse ==
    /\ call.op = "ToggleSwitch"
    /\ call.pc = "running"
    /\ Count(call.reqs, "lampSwitch") < MaxSwitchRequests
    /\ \E o \in ToggleSwitchOutcomes(api, clock) :
         /\ api' = o.call.api
         /\ call' = [op |-> "ToggleSwitch",
                     pc |-> IF o.recurse THEN "running" ELSE "returned",
                     err |-> o.call.err, reqs |-> call.reqs \o o.call.reqs]
    /\ UNCHANGED <<timerVars, mainVars, clock, mu, thr>>

AdvanceClock ==
    /\ clock + ClockStep <= MaxClock
    /\ clock' = clock + ClockStep
    /\ UNCHANGED <<timerVars, mainVars, api, call, mu, thr>>

NextApi ==
    \/ CallLogin
    \/ CallGetLightData
    \/ CallSetBrightness
    \/ CallToggleSwitch
    \/ ToggleSwitchRecurse
    \/ AdvanceClock

SpecApi == InitApi /\ [][NextApi]_vars

(***************************************************************************)
(* SpecLogin: the goroutines of Callers call Login on one new session at   *)
(* the same time (lines 60-107), while the clock advances.  Each line that *)
(* touches the mutex, the session or the network is a step of its own.     *)
(***************************************************************************)
InitLogin ==
    /\ lt = ExampleConfig
    /\ now = 0
    /\ expected = GetExpectedBrightness(lt, now)
    /\ prevNow = now
    /\ prevExpected = expected
    /\ pc = "startup"
    /\ lastBrightness = Unknown
    /\ tick = NoTick
    /\ api = NewMarsHydroAPI
    /\ clock = 0
    /\ call = NoCall
    /\ mu = Unlocked
    /\ thr = [t \in Callers |-> ThreadAt("lock")]

\* The number of login requests sent on the session so far.
LoginsSent == Cardinality({ t \in Callers : thr[t].seq > 0 })

\* Line 61: api.mu.Lock() returns once no goroutine holds the mutex.
LoginLock(t) ==
    /\ thr[t].pc = "lock"
    /\ mu = Unlocked
    /\ mu' = t
    /\ thr' = [thr EXCEPT ![t].pc = "check"]
    /\ UNCHANGED <<timerVars, mainVars, api, clock, call>>

\* Lines 64-67 and 69-84: return nil while the token is still valid,
\* otherwise send the login request.
LoginCheck(t) ==
    /\ thr[t].pc = "check"
    /\ thr' = IF TokenStillValid(api, clock)
              THEN [thr EXCEPT ![t].pc = "return", ![t].err = "nil"]
              ELSE [thr EXCEPT ![t].pc = "request",
                               ![t].seq = LoginsSent + 1,
                               ![t].at = clock]
    /\ UNCHANGED <<timerVars, mainVars, api, clock, call, mu>>

\* Lines 84-106: the answer arrives and is handled.
LoginAnswer(t) ==
    /\ thr[t].pc = "request"
    /\ \E r \in LoginResponses :
         LET res == LoginRequest(api, clock, r)
         IN  /\ api' = res.api
             /\ thr' = [thr EXCEPT ![t].pc = "return", ![t].err = res.err]
    /\ UNCHANGED <<timerVars, mainVars, clock, call, mu>>

\* Line 62: the deferred api.mu.Unlock() runs as Login returns.
LoginReturn(t) ==
    /\ thr[t].pc = "return"
    /\ mu' = Unlocked
    /\ thr' = [thr EXCEPT ![t].pc = "done", ![t].token = api.Token]
    /\ UNCHANGED <<timerVars, mainVars, api, clock, call>>

NextLogin ==
    \/ \E t \in Callers : LoginLock(t)
    \/ \E t \in Callers : LoginCheck(t)
    \/ \E t \in Callers : LoginAnswer(t)
    \/ \E t \in Callers : LoginReturn(t)
    \/ AdvanceClock

SpecLogin == InitLogin /\ [][NextLogin]_vars

(***************************************************************************)
(* Properties of the schedule engine (checked under SpecTimer).            *)
(***************************************************************************)
InWindow(c, t) == t >= StartSec(c) /\ t < EndSec(c)

\* The sunrise window [startSec, startSec + sunriseRamp).
InSunriseWindow(c, t) == t >= StartSec(c) /\ t < StartSec(c) + SunriseRamp(c)

\* The sunset window [plateauEnd, endSec).
InSunsetWindow(c, t) == t >= PlateauEnd(c) /\ t < EndSec(c)

\* The plateau window [plateauStart, plateauEnd).
InPlateauWindow(c, t) == t >= PlateauStart(c) /\ t < PlateauEnd(c)

\* C7 (as claimed): every returned value is an exact multiple of StepSize
\* and is at most Brightness.
C7_MultipleOfStepAndBounded ==
    /\ expected % lt.StepSize = 0
    /\ expected <= lt.Brightness

\* C7 (amended): every returned value is at most Brightness and is either
\* an exact multiple of StepSize or Brightness itself (the plateau value and
\* the clamp return Brightness, which need not be a multiple of StepSize).
C7_MultipleOfStepOrMaxAndBounded ==
    /\ expected <= lt.Brightness
    /\ (expected % lt.StepSize = 0 \/ expected = lt.Brightness)

\* C7 witness: a sunrise evaluation whose rounding overshot Brightness and
\* was clamped.
C7_Witness ==
    /\ InWindow(lt, now)
    /\ InSunriseWindow(lt, now)
    /\ Quantize_NoClamp(lt, now - StartSec(lt), SunriseRamp(lt)) > lt.Brightness
    /\ expected = lt.Brightness

\* C8 (as claimed): at every time inside the plateau window the result is
\* exactly Brightness, whatever PlateauOffset is.
C8_PlateauIsMax ==
    InPlateauWindow(lt, now) => expected = lt.Brightness

\* C8 (amended): at every time inside the plateau window that also lies in
\* [startSec, endSec) the result is exactly Brightness.
C8_PlateauInsideWindowIsMax ==
    (InPlateauWindow(lt, now) /\ InWindow(lt, now)) => expected = lt.Brightness

\* C8 witness: a plateau evaluation under a non-zero PlateauOffset with a
\* Brightness that differs from StepSize.
C8_Witness ==
    /\ InPlateauWindow(lt, now)
    /\ InWindow(lt, now)
    /\ lt.PlateauOffset # 0
    /\ lt.Brightness # lt.StepSize
    /\ expected = lt.Brightness

\* C9 (as claimed): between two successive evaluation times of the sunrise
\* window the result does not decrease, and between two successive
\* evaluation times of the sunset window it does not increase.
C9_Monotone ==
    /\ (InSunriseWindow(lt, prevNow) /\ InSunriseWindow(lt, now))
          => prevExpected <= expected
    /\ (InSunsetWindow(lt, prevNow) /\ InSunsetWindow(lt, now))
          => prevExpected >= expected

\* C9 (amended): the same, for configurations with StepSize <= Brightness
\* and for the times of the two windows that lie in [startSec, endSec).
C9_MonotoneInsideWindow ==
    (lt.StepSize <= lt.Brightness /\ InWindow(lt, prevNow) /\ InWindow(lt, now))
      => C9_Monotone

\* C9 witness: the result rose between two successive evaluations of the
\* sunrise window.
C9_Witness ==
    /\ lt.StepSize <= lt.Brightness
    /\ InWindow(lt, prevNow) /\ InWindow(lt, now)
    /\ InSunriseWindow(lt, prevNow) /\ InSunriseWindow(lt, now)
    /\ prevNow < now
    /\ prevExpected < expected

\* C10: before startSec and from endSec on the result is 0, for every
\* configuration and PlateauOffset.
C10_OffOutsideWindow ==
    (now < lt.StartHour * SecPerHour \/ now >= lt.EndHour * SecPerHour)
      => expected = 0

\* C10 witness: an evaluation at or after endSec that the plateau window,
\* pushed out by PlateauOffset, still covers.
C10_Witness ==
    /\ now >= EndSec(lt)
    /\ InPlateauWindow(lt, now)
    /\ lt.PlateauOffset # 0
    /\ expected = 0

Positions(reqs, req) == { i \in DOMAIN reqs : reqs[i].req = req }

\* The brightness command of the last updateState call was sent and its
\* answer carried the success sentinel.
CommandConfirmed ==
    \E i \in Positions(tick.reqs, "adjustLight") : tick.reqs[i].ans = "000"

\* The last updateState call went past the debounce check (line 38).
ApplyAttempted == pc = "loop" /\ tick.applied

\* The state after the first updateState call (line 59).
FirstTickDone == pc = "loop" /\ prevNow = now

\* C1 (as claimed): after a tick, lastBrightness has been set to the target
\* only if the brightness command of that tick was answered with code "000".
C1_SetOnlyOnConfirmedSuccess ==
    (ApplyAttempted /\ lastBrightness = tick.target) => CommandConfirmed

\* C2 (as claimed): a brightness command answered with the expiry sentinel
\* "102" is followed by a login and, when that login succeeds, by exactly
\* one more brightness command; a call sends at most two.
C2_RetryOnceOnExpiry ==
    /\ Count(tick.reqs, "adjustLight") <= 2
    /\ \A i \in Positions(tick.reqs, "adjustLight") :
         (tick.reqs[i].ans = "102" /\ Count(SubSeq(tick.reqs, 1, i), "adjustLight") = 1)
           => /\ i + 1 \in DOMAIN tick.reqs
              /\ tick.reqs[i + 1].req = "login"
              /\ tick.reqs[i + 1].err = "nil"
                   => /\ i + 2 \in DOMAIN tick.reqs
                      /\ tick.reqs[i + 2].req = "adjustLight"

C5_FirstTickOneCommand ==
    FirstTickDone => Count(tick.reqs, "adjustLight") = 1

\* C5 (amended): the first tick is never debounced, whatever the target
\* (the target never equals the unknown sentinel): it starts with a login
\* request, and it issues exactly one brightness command when every login
\* and device-list request of the tick succeeds and none otherwise.
C5_FirstTickApplies ==
    FirstTickDone =>
        /\ tick.before = Unknown
        /\ tick.target # Unknown
        /\ tick.applied
        /\ tick.reqs # <<>>
        /\ tick.reqs[1].req = "login"
        /\ Count(tick.reqs, "adjustLight") =
             IF \A i \in DOMAIN tick.reqs :
                    tick.reqs[i].req \in {"login", "getDeviceList"}
                      => tick.reqs[i].err = "nil"
             THEN 1 ELSE 0

\* C5 witness: a first tick with target 0 that sent its one brightness
\* command.
C5_Witness ==
    /\ FirstTickDone
    /\ tick.target = 0
    /\ Count(tick.reqs, "adjustLight") = 1

\* C6 (as claimed): an apply attempt that fails, by a login error, a
\* discovery error or a brightness command that was not answered with the
\* success sentinel, leaves lastBrightness as it was.
C6_FailureKeepsLastBrightness ==
    (ApplyAttempted /\ ~CommandConfirmed) => lastBrightness = tick.before

(***************************************************************************)
(* Properties of the session calls (checked under SpecApi).                *)
(***************************************************************************)
\* C3 (as claimed): a ToggleSwitch call sends at most two lampSwitch
\* requests, the first attempt and one retry after an expiry sentinel.
C3_AtMostTwoSwitchRequests ==
    call.op = "ToggleSwitch" => Count(call.reqs, "lampSwitch") <= 2

\* A step of SpecApi that is a call of op: the calls leave the clock alone,
\* and call holds the operation of the last call.
CallStep(op) == clock' = clock /\ call'.op = op

\* The answers of the login requests of the last call.
LoginAnswers == { call.reqs[i].ans : i \in Positions(call.reqs, "login") }

\* C11: a Login call whose login request is answered without "data", or
\* without a string "data.token", returns an error ("invalid login
\* response", "token not found in response") and leaves Token and
\* LastLoginTime of the session as they were before the call.
C11_BadLoginAnswerKeepsSession ==
    [][ (CallStep("Login") /\ call'.reqs # <<>>
           /\ call'.reqs[1].ans \in {"nodata", "notoken"})
        => /\ call'.err \in {"invalid login response", "token not found in response"}
           /\ api'.Token = api.Token
           /\ api'.LastLoginTime = api.LastLoginTime ]_vars

\* C11 witness: a Login call on a session that holds an expired token was
\* answered without a token; the session still holds the token and the
\* time of its login.
C11_Witness ==
    /\ call.op = "Login"
    /\ LoginAnswers \cap {"nodata", "notoken"} # {}
    /\ call.err # "nil"
    /\ api.Token # ""
    /\ clock - api.LastLoginTime >= LoginInterval

\* The errors of a discovery that found no device (lines 194, 225).
DeviceNotFound ==
    {"no light devices available", "device id not found in response"}

\* C12: a SetBrightness call on a session without DeviceID whose discovery
\* is answered with an empty list, or with a first entry that leaves
\* DeviceID empty (no usable "id" or "deviceId"), returns the discovery's
\* error, leaves DeviceID empty and GroupID as it was, and sends no
\* adjustLight request: the discovery is the last request of the call.
C12_FailedDiscoverySendsNoCommand ==
    [][ (CallStep("SetBrightness") /\ api.DeviceID = ""
           /\ \E i \in Positions(call'.reqs, "getDeviceList") :
                \/ call'.reqs[i].ans = "nolist"
                \/ call'.reqs[i].ans = "entry" /\ api'.DeviceID = "")
        => /\ call'.err \in DeviceNotFound
           /\ api'.DeviceID = ""
           /\ api'.GroupID = api.GroupID
           /\ Count(call'.reqs, "adjustLight") = 0
           /\ call'.reqs[Len(call'.reqs)].req = "getDeviceList" ]_vars

\* C12 witness: a SetBrightness call logged in, was answered with a first
\* entry without a usable id, and returned without a brightness command.
C12_Witness ==
    /\ call.op = "SetBrightness"
    /\ \E i \in Positions(call.reqs, "getDeviceList") :
         /\ call.reqs[i].ans = "entry"
         /\ call.reqs[i].err = "device id not found in response"
    /\ call.err = "device id not found in response"
    /\ api.Token # ""
    /\ api.DeviceID = ""
    /\ Count(call.reqs, "adjustLight") = 0

\* The session needs a login before its next request: it holds no token,
\* or its token was issued LoginInterval or longer ago.
NeedsLogin ==
    api.Token = "" \/ clock - api.LastLoginTime >= LoginInterval

\* A step of SpecApi that is the first invocation of a command call
\* (SetBrightness, ToggleSwitch) and sends a request.
CommandCallStep ==
    /\ CallStep("SetBrightness") \/ CallStep("ToggleSwitch")
    /\ call.pc # "running"
    /\ call'.reqs # <<>>

\* C13 (as claimed): a command call starts with a login request exactly
\* when the session holds no token or its token was issued LoginInterval
\* or longer ago; hence every command request that no login request of the
\* call precedes carries a token younger than LoginInterval.
C13_LoginBeforeCommandWhenExpired ==
    [][ CommandCallStep
        => /\ (call'.reqs[1].req = "login") <=> NeedsLogin
           /\ \A i \in Positions(call'.reqs, "adjustLight")
                       \cup Positions(call'.reqs, "lampSwitch") :
                Count(SubSeq(call'.reqs, 1, i), "login") = 0
                  => clock - api.LastLoginTime < LoginInterval ]_vars

\* The positions of the command requests in a sequence of requests.
Commands(reqs) == Positions(reqs, "adjustLight") \cup Positions(reqs, "lampSwitch")

\* C14 (as claimed): when a command request is answered with the expiry
\* sentinel "102" and the command is sent again, a login request was sent
\* to the server between the two, whatever the age of the cached token.
C14_LoginSentBeforeRetry ==
    \A i \in Commands(call.reqs) :
        (call.reqs[i].ans = "102" /\ i + 1 \in DOMAIN call.reqs)
          => call.reqs[i + 1].req = "login"

\* C15 (as claimed): a command request answered with a code that is
\* neither "000" nor "102", or with no string code, makes the call return
\* an error at once: the request is the last one of the call, so no login
\* and no second command follow it.
C15_OtherCodeIsRejected ==
    \A i \in Commands(call.reqs) :
        call.reqs[i].ans \in {"500", "nocode"}
          => /\ call.pc = "returned"
             /\ call.err # "nil"
             /\ i = Len(call.reqs)

\* A request of kind req of the updateState call recorded in t succeeded.
Succeeded(t, req) == \E i \in Positions(t.reqs, req) : t.reqs[i].err = "nil"

\* C16 (as claimed): the session persists from one tick to the next.  At
\* the tick that follows an updateState call whose discovery succeeded no
\* getDeviceList request is sent, and at the tick that follows one whose
\* login succeeded, TickSec later and so within LoginInterval, no login
\* request is sent (no expiry sentinel precedes the first request of a
\* call).
C16_SessionPersistsAcrossTicks ==
    [][ (pc = "loop" /\ now' = now + TickSec /\ TickSec < LoginInterval)
        => /\ Succeeded(tick, "getDeviceList")
                => Count(tick'.reqs, "getDeviceList") = 0
           /\ Succeeded(tick, "login")
                => Count(tick'.reqs, "login") = 0 ]_vars

\* C18 (as claimed): when Login returns no error the session holds a
\* non-empty token; an answer whose "data.token" is the empty string is
\* not taken for a successful login.
C18_LoginSuccessMeansToken ==
    (call.op = "Login" /\ call.err = "nil") => api.Token # ""

(***************************************************************************)
(* Properties of concurrent Login calls (checked under SpecLogin).         *)
(***************************************************************************)
\* Goroutine t sent the first login request of the session and its Login
\* call returned success.
FirstLoginSucceeded(t) ==
    thr[t].seq = 1 /\ thr[t].pc = "done" /\ thr[t].err = "nil"

\* C19 (as claimed): once the first login of two concurrent Login calls on
\* a new session has succeeded, the other call sends no login request
\* within LoginInterval of it, and a call that sent none returns success
\* with the same token.
C19_OneLoginRequest ==
    \A t \in Callers : \A u \in Callers \ {t} :
        FirstLoginSucceeded(t)
          => /\ thr[u].seq > 0 => thr[u].at - thr[t].at >= LoginInterval
             /\ (thr[u].pc = "done" /\ thr[u].seq = 0)
                  => (thr[u].err = "nil" /\ thr[u].token = thr[t].token)

=============================================================================
